---- MODULE Spec2Model ----
(***************************************************************************)
(* osm_time_lapse: the REST fetcher (fetch_changesets.py) and the          *)
(* bulk-query fetcher (fetch_osm_duckdb.py), with the changeset server,    *)
(* the bulk dataset and the output directory they share.                   *)
(*                                                                         *)
(* Units.  A coordinate is an integer number of hundredths of a degree     *)
(* (12.23 is 1223).  A centroid (a + b) / 2 is kept doubled, as a + b, so  *)
(* that no half is lost; it is compared against doubled city bounds.       *)
(* A created_at is a day number, 0 being 2024-01-01 (a Monday); two        *)
(* changesets with the same day number share their created_at.  A          *)
(* formatted date is <<year, month, day>>, a month key <<year, month>>.    *)
(***************************************************************************)
EXTENDS Integers, Sequences, FiniteSets, TLC

(* ------------------------------------------------------------------ *)
(* Bounds of the model                                                 *)
(* ------------------------------------------------------------------ *)

\* Page size of the changeset endpoint, scaled down: the code compares
\* len(batch) with 100 (fetch_changesets.py line 104).
PageLimit == 2

\* Runs of the two scripts in one behaviour.
MaxRuns == 2

\* Cap on the requests of one fetch_user_changesets call.
MaxRequests == 6

(* ------------------------------------------------------------------ *)
(* Program constants                                                   *)
(* ------------------------------------------------------------------ *)

\* The first users of the USERS list (the same list in both scripts).
USERS == <<"Amac239", "AndromedaL">>

\* START_DATE, 2024-01-01, as a day number.
START_DATE == 0

Other == "Other"

\* CITIES of fetch_changesets.py, in the order of the dict literal.
REST_CITIES ==
    << [name |-> "Rome, IT",       min_lon |-> 1223,   min_lat |-> 4165, max_lon |-> 1285,   max_lat |-> 4210],
       [name |-> "London, UK",     min_lon |-> -51,    min_lat |-> 5128, max_lon |-> 33,     max_lat |-> 5169],
       [name |-> "Manchester, UK", min_lon |-> -235,   min_lat |-> 5335, max_lon |-> -215,   max_lat |-> 5355],
       [name |-> "Naples, IT",     min_lon |-> 1410,   min_lat |-> 4078, max_lon |-> 1440,   max_lat |-> 4095],
       [name |-> "Brooklyn, NY",   min_lon |-> -7405,  min_lat |-> 4057, max_lon |-> -7383,  max_lat |-> 4074],
       [name |-> "Atlanta, GA",    min_lon |-> -8455,  min_lat |-> 3365, max_lon |-> -8429,  max_lat |-> 3389],
       [name |-> "Austin, TX",     min_lon |-> -9795,  min_lat |-> 3010, max_lon |-> -9760,  max_lat |-> 3050],
       [name |-> "Phoenix, AZ",    min_lon |-> -11235, min_lat |-> 3327, max_lon |-> -11190, max_lat |-> 3370] >>

\* CITIES of fetch_osm_duckdb.py, in the order of the dict literal.
BULK_CITIES ==
    << [name |-> "Rome, IT",       min_lon |-> 1223,   min_lat |-> 4165, max_lon |-> 1285,   max_lat |-> 4210],
       [name |-> "Scottsdale, AZ", min_lon |-> -11196, min_lat |-> 3340, max_lon |-> -11168, max_lat |-> 3385],
       [name |-> "London, UK",     min_lon |-> -51,    min_lat |-> 5128, max_lon |-> 33,     max_lat |-> 5169],
       [name |-> "Naples, IT",     min_lon |-> 1410,   min_lat |-> 4078, max_lon |-> 1440,   max_lat |-> 4095],
       [name |-> "Brooklyn, NY",   min_lon |-> -7405,  min_lat |-> 4057, max_lon |-> -7383,  max_lat |-> 4074],
       [name |-> "Phoenix, AZ",    min_lon |-> -11235, min_lat |-> 3327, max_lon |-> -11190, max_lat |-> 3370] >>

(* ------------------------------------------------------------------ *)
(* Values standing for Python's None, a missing key and float('nan')   *)
(* ------------------------------------------------------------------ *)

\* classify_changeset_location's None, as the value of the 'city' entry.
None == "None"

\* The 'center' entry of a REST record; has = FALSE is the missing key.
NoCenter == [has |-> FALSE, lon |-> 0, lat |-> 0]

BBoxFields == {"min_lon", "min_lat", "max_lon", "max_lat"}

FileNames == {"changesets.json", "weekly_changesets.json",
              "monthly_changesets.json", "cities.json"}

\* A path of the output directory at which no file exists.
NoFile == [writer |-> "none", data |-> << >>]

(* ------------------------------------------------------------------ *)
(* The changesets the server can hold                                  *)
(* ------------------------------------------------------------------ *)

\* fields: the bounding-box attributes present (not null) on the record.
\* tags: "none" (no tag), "comment" (a comment tag), "other" (tags, no comment).
Universe ==
    << [user |-> "Amac239",    created_at |-> -1, fields |-> BBoxFields,
        min_lon |-> 1240, min_lat |-> 4180, max_lon |-> 1260, max_lat |-> 4200, tags |-> "comment"],
       [user |-> "Amac239",    created_at |-> 0,  fields |-> BBoxFields,
        min_lon |-> -11195, min_lat |-> 3350, max_lon |-> -11191, max_lat |-> 3360, tags |-> "comment"],
       [user |-> "Amac239",    created_at |-> 7,  fields |-> {},
        min_lon |-> 0, min_lat |-> 0, max_lon |-> 0, max_lat |-> 0, tags |-> "none"],
       [user |-> "Amac239",    created_at |-> 7,  fields |-> BBoxFields,
        min_lon |-> -10, min_lat |-> 5150, max_lon |-> 10, max_lat |-> 5151, tags |-> "other"],
       [user |-> "Amac239",    created_at |-> 73, fields |-> BBoxFields,
        min_lon |-> 0, min_lat |-> 0, max_lon |-> 100, max_lat |-> 100, tags |-> "comment"],
       [user |-> "AndromedaL", created_at |-> 3,  fields |-> {"min_lon", "min_lat"},
        min_lon |-> 1240, min_lat |-> 4180, max_lon |-> 0, max_lat |-> 0, tags |-> "comment"],
       [user |-> "AndromedaL", created_at |-> 60, fields |-> {"min_lat", "max_lon", "max_lat"},
        min_lon |-> 0, min_lat |-> 4180, max_lon |-> 1260, max_lat |-> 4200, tags |-> "none"],
       [user |-> "AndromedaL", created_at |-> 33, fields |-> BBoxFields,
        min_lon |-> 1223, min_lat |-> 4165, max_lon |-> 1223, max_lat |-> 4165, tags |-> "comment"],
       [user |-> "Amac239",    created_at |-> 30, fields |-> BBoxFields,
        min_lon |-> -11230, min_lat |-> 3330, max_lon |-> -11220, max_lat |-> 3340, tags |-> "none"] >>

Ids == DOMAIN Universe

HasBBox(id) == Universe[id].fields = BBoxFields

(* ------------------------------------------------------------------ *)
(* Sequences and dates                                                 *)
(* ------------------------------------------------------------------ *)

Range(s) == {s[i] : i \in DOMAIN s}

\* Newest first; among equal created_at, the greater id first.
Newer(a, b) ==
    \/ Universe[a].created_at > Universe[b].created_at
    \/ Universe[a].created_at = Universe[b].created_at /\ a > b

RECURSIVE NewestFirst(_)
NewestFirst(S) ==
    IF S = {} THEN << >>
    ELSE LET top == CHOOSE x \in S : \A y \in S \ {x} : Newer(x, y)
         IN  <<top>> \o NewestFirst(S \ {top})

IsLeap(y) == (y % 4 = 0 /\ y % 100 # 0) \/ y % 400 = 0

DaysInMonth(y, m) ==
    IF m = 2 THEN (IF IsLeap(y) THEN 29 ELSE 28)
    ELSE IF m \in {4, 6, 9, 11} THEN 30 ELSE 31

RECURSIVE DateFrom(_, _, _)
\* The date n days after the first day of month m of year y.
DateFrom(y, m, n) ==
    IF n < DaysInMonth(y, m) THEN <<y, m, n + 1>>
    ELSE DateFrom(IF m = 12 THEN y + 1 ELSE y, IF m = 12 THEN 1 ELSE m + 1,
                  n - DaysInMonth(y, m))

\* The calendar date of a day number (day 0 is 2024-01-01, day -365 is 2023-01-01).
DateOf(d) == DateFrom(2023, 1, d + 365)

\* datetime.weekday(): Monday is 0.  2024-01-01 is a Monday.
Weekday(d) == (d + 371) % 7

(* ------------------------------------------------------------------ *)
(* The changeset endpoint (the environment of the REST fetcher)        *)
(* ------------------------------------------------------------------ *)

\* The changesets of a user that a request with the given 'time' parameter
\* selects: created at or after time[1] and, when the parameter has an upper
\* bound, before time[2].  The window is half-open, as the design document
\* states it (section 4.1); the endpoint itself is no code of the repository.
Window(held, username, time) ==
    {id \in held :
        /\ Universe[id].user = username
        /\ Universe[id].created_at >= time[1]
        /\ Len(time) = 2 => Universe[id].created_at < time[2]}

\* The pages the endpoint may answer with: the newest PageLimit changesets of
\* the window, or all of them when there are fewer; which of several
\* changesets with the same created_at make it into the page is not fixed.
Pages(held, username, time) ==
    LET W == Window(held, username, time)
        n == IF Cardinality(W) < PageLimit THEN Cardinality(W) ELSE PageLimit
    IN  {P \in SUBSET W :
            /\ Cardinality(P) = n
            /\ \A p \in P, q \in W \ P :
                   Universe[p].created_at >= Universe[q].created_at}

(* ------------------------------------------------------------------ *)
(* fetch_changesets.py                                                 *)
(* ------------------------------------------------------------------ *)

\* The body of the loop over root.findall('changeset'): the record built from
\* one element, or ok = FALSE when float(None) raises a TypeError.  The 'city'
\* entry is set later, by main.
ParseChangeset(id) ==
    LET e == Universe[id]
        rec(c) == [id |-> id, user |-> e.user, created_at |-> e.created_at,
                   center |-> c, tags |-> e.tags, city |-> "absent"]
    IN  IF "min_lon" \in e.fields
        THEN [ok |-> BBoxFields \subseteq e.fields,
              cs |-> rec([has |-> TRUE, lon |-> e.min_lon + e.max_lon,
                                        lat |-> e.min_lat + e.max_lat])]
        ELSE [ok |-> TRUE, cs |-> rec(NoCenter)]

\* The batch parsed from a page, in the order of the response.
ParseBatch(page) == [i \in DOMAIN page |-> ParseChangeset(page[i]).cs]

BatchParses(page) == \A i \in DOMAIN page : ParseChangeset(page[i]).ok

\* min(batch, key=created_at): the created_at of the oldest record.
OldestCreatedAt(batch) ==
    CHOOSE t \in {batch[i].created_at : i \in DOMAIN batch} :
        \A i \in DOMAIN batch : t <= batch[i].created_at

\* params['time'] left as it was: no upper bound is set for the next request.
NextTimeUnbounded(start_time, batch) == <<start_time>>

\* params['time'] for the next request.
NextTime(start_time, batch) == <<start_time, OldestCreatedAt(batch)>>

\* len(batch) < 100, the test that ends the loop after a short page.
ShortPage(batch) == Len(batch) < PageLimit

InBoxRest(c, lon, lat) ==
    /\ 2 * c.min_lon <= lon /\ lon <= 2 * c.max_lon
    /\ 2 * c.min_lat <= lat /\ lat <= 2 * c.max_lat

RECURSIVE ScanRest(_, _, _)
\* The for loop over CITIES.items(), from the i-th city on.
ScanRest(i, lon, lat) ==
    IF i > Len(REST_CITIES) THEN Other
    ELSE IF InBoxRest(REST_CITIES[i], lon, lat) THEN REST_CITIES[i].name
    ELSE ScanRest(i + 1, lon, lat)

classify_changeset_location(cs) ==
    IF ~cs.center.has THEN None
    ELSE ScanRest(1, cs.center.lon, cs.center.lat)

\* for cs in changesets: cs['city'] = classify_changeset_location(cs)
Classified(list) ==
    [i \in DOMAIN list |->
        [list[i] EXCEPT !.city = classify_changeset_location(list[i])]]

RECURSIVE InsertByCreated(_, _)
\* x placed after every element whose created_at is not greater (a stable sort).
InsertByCreated(sorted, x) ==
    IF sorted = << >> THEN <<x>>
    ELSE IF Head(sorted).created_at <= x.created_at
         THEN <<Head(sorted)>> \o InsertByCreated(Tail(sorted), x)
         ELSE <<x>> \o sorted

RECURSIVE SortByCreated(_)
\* list.sort(key=created_at)
SortByCreated(list) ==
    IF list = << >> THEN << >>
    ELSE InsertByCreated(SortByCreated(SubSeq(list, 1, Len(list) - 1)),
                         list[Len(list)])

\* The week key with isoweekday() (Monday is 1) in place of weekday().
WeekKeyIsoWeekday(created_at) == DateOf(created_at - (Weekday(created_at) + 1))

\* week_start.strftime('%Y-%m-%d') of created_at - timedelta(days=weekday())
WeekKey(created_at) == DateOf(created_at - Weekday(created_at))

\* The entry appended to a week's list.
WeekItem(cs) ==
    [id |-> cs.id, user |-> cs.user, lon |-> cs.center.lon, lat |-> cs.center.lat,
     city |-> cs.city, created_at |-> cs.created_at,
     comment |-> IF cs.tags = "comment" THEN "comment" ELSE ""]

\* data[key].append(item), the key being created on first use.  A dict is a
\* sequence of [key, items] in insertion order.
AppendTo(data, key, item) ==
    IF \E j \in DOMAIN data : data[j].key = key
    THEN [j \in DOMAIN data |->
            IF data[j].key = key
            THEN [data[j] EXCEPT !.items = Append(@, item)] ELSE data[j]]
    ELSE Append(data, [key |-> key, items |-> <<item>>])

RECURSIVE WeeklyData(_)
\* The weekly aggregation loop over all_changesets.
WeeklyData(list) ==
    IF list = << >> THEN << >>
    ELSE LET before == WeeklyData(SubSeq(list, 1, Len(list) - 1))
             cs == list[Len(list)]
         IN  IF ~cs.center.has THEN before
             ELSE AppendTo(before, WeekKey(cs.created_at), WeekItem(cs))

\* The dict written to cities.json.
CitiesJson(cities) ==
    [i \in DOMAIN cities |->
        [name |-> cities[i].name,
         bbox |-> <<cities[i].min_lon, cities[i].min_lat,
                    cities[i].max_lon, cities[i].max_lat>>,
         center |-> <<cities[i].min_lon + cities[i].max_lon,
                      cities[i].min_lat + cities[i].max_lat>>]]

(* ------------------------------------------------------------------ *)
(* fetch_osm_duckdb.py                                                 *)
(* ------------------------------------------------------------------ *)

RECURSIVE Orders(_)
\* The orders ORDER BY created_at may give the rows S: rows with the same
\* created_at come in either order.
Orders(S) ==
    IF S = {} THEN {<< >>}
    ELSE UNION {{<<x>> \o t : t \in Orders(S \ {x})} :
                  x \in {y \in S : \A z \in S :
                            Universe[y].created_at <= Universe[z].created_at}}

\* The results the query may give: the changesets of the users of USERS
\* created on or after START_DATE, ordered by created_at.
QueryResults(held) ==
    Orders({id \in held : /\ Universe[id].user \in Range(USERS)
                          /\ Universe[id].created_at >= START_DATE})

\* row[f] of the DataFrame that fetchdf() returns.  Nothing in the script
\* fixes how that DataFrame holds a NULL coordinate: as None (a column of
\* Python objects) or as NaN (a column of floats).  nulls is "None" or "NaN".
Cell(id, f, nulls) ==
    IF f \in Universe[id].fields
    THEN [kind |-> "num", v |-> Universe[id][f]]
    ELSE [kind |-> nulls, v |-> 0]

\* x is not None
IsNotNone(c) == c.kind # "None"

\* a + b of two cells (doubled centroid): a TypeError with None, NaN with NaN.
Sum(a, b) ==
    IF a.kind = "None" \/ b.kind = "None" THEN [kind |-> "TypeError", v |-> 0]
    ELSE IF a.kind = "NaN" \/ b.kind = "NaN" THEN [kind |-> "NaN", v |-> 0]
    ELSE [kind |-> "num", v |-> a.v + b.v]

\* cmin <= x <= cmax; every comparison with NaN is false.
Between(cmin, x, cmax) == x.kind = "num" /\ 2 * cmin <= x.v /\ x.v <= 2 * cmax

RECURSIVE ScanBulkNoBreak(_, _, _)
\* The inline city loop without its break: the last match wins.
ScanBulkNoBreak(i, lon, lat) ==
    IF i > Len(BULK_CITIES) THEN Other
    ELSE LET later == ScanBulkNoBreak(i + 1, lon, lat)
         IN  IF later # Other THEN later
             ELSE IF /\ 2 * BULK_CITIES[i].min_lon <= lon.v
                     /\ lon.v <= 2 * BULK_CITIES[i].max_lon
                     /\ 2 * BULK_CITIES[i].min_lat <= lat.v
                     /\ lat.v <= 2 * BULK_CITIES[i].max_lat
                  THEN BULK_CITIES[i].name ELSE Other

RECURSIVE ScanBulk(_, _, _)
\* The inline city loop, from the i-th city on: the first match, with break.
ScanBulk(i, lon, lat) ==
    IF i > Len(BULK_CITIES) THEN Other
    ELSE IF /\ Between(BULK_CITIES[i].min_lon, lon, BULK_CITIES[i].max_lon)
            /\ Between(BULK_CITIES[i].min_lat, lat, BULK_CITIES[i].max_lat)
         THEN BULK_CITIES[i].name
         ELSE ScanBulk(i + 1, lon, lat)

\* The test that guards the body of the row loop.
RowHasBBox(id, nulls) ==
    IsNotNone(Cell(id, "min_lon", nulls)) /\ IsNotNone(Cell(id, "min_lat", nulls))

\* The record appended for a row that passes the test; lon.kind or lat.kind
\* is "TypeError" when the centroid sum raises.
RowRecord(id, nulls) ==
    LET lon == Sum(Cell(id, "min_lon", nulls), Cell(id, "max_lon", nulls))
        lat == Sum(Cell(id, "min_lat", nulls), Cell(id, "max_lat", nulls))
    IN  [id |-> id, user |-> Universe[id].user, lon |-> lon, lat |-> lat,
         city |-> ScanBulk(1, lon, lat),
         created_at |-> DateOf(Universe[id].created_at),
         comment |-> IF Universe[id].tags = "comment" THEN "comment" ELSE ""]

RowRaises(id, nulls) ==
    /\ RowHasBBox(id, nulls)
    /\ "TypeError" \in {RowRecord(id, nulls).lon.kind, RowRecord(id, nulls).lat.kind}

RECURSIVE ProcessRows(_, _)
\* The loop over result.iterrows().
ProcessRows(rows, nulls) ==
    IF rows = << >> THEN << >>
    ELSE LET before == ProcessRows(SubSeq(rows, 1, Len(rows) - 1), nulls)
             id == rows[Len(rows)]
         IN  IF RowHasBBox(id, nulls) THEN Append(before, RowRecord(id, nulls))
             ELSE before

\* cs['created_at'][:7]
MonthKey(created_at) == SubSeq(created_at, 1, 2)

RECURSIVE MonthlyData(_)
\* The monthly aggregation loop over changesets.
MonthlyData(list) ==
    IF list = << >> THEN << >>
    ELSE AppendTo(MonthlyData(SubSeq(list, 1, Len(list) - 1)),
                  MonthKey(list[Len(list)].created_at), list[Len(list)])

(* ------------------------------------------------------------------ *)
(* State                                                               *)
(* ------------------------------------------------------------------ *)

VARIABLES
    server,          \* the ids of the changesets the server and the dataset hold
    files,           \* the output directory: file name -> [writer, data]
    script,          \* the script of the current (or last) run: "none", "rest", "bulk"
    pc,              \* where that run is; "idle", "done", "aborted" when none runs
    runs,            \* runs started so far
    written,         \* the files the current run has written
    userIdx,         \* main's position in USERS
    params,          \* params['time']: <<start>> or <<start, upper>>
    batch,           \* the batch of the last page parsed
    changesets,      \* fetch_user_changesets' list
    all_changesets,  \* main's list
    weekly_data,     \* main's weekly dict
    nreq,            \* requests sent by the current fetch_user_changesets call
    errors,          \* the users an "Error fetching" line was printed for
    clock,           \* seconds slept so far in this run
    lastRequest,     \* << >>, or <<clock>> as it was at the last request
    nulls,           \* how the DataFrame has a NULL: "None" or "NaN"
    result,          \* the rows of the query result, as ids
    bulk_changesets, \* the bulk fetcher's changesets list
    monthly_data,    \* the bulk fetcher's monthly dict
    probe,           \* a changeset with the centroid under test
    probeCity        \* << >>, or <<REST label, bulk label>> of the probe

vars == <<server, files, script, pc, runs, written, userIdx, params, batch,
          changesets, all_changesets, weekly_data, nreq, errors, clock,
          lastRequest, nulls, result, bulk_changesets, monthly_data,
          probe, probeCity>>

restVars == <<userIdx, params, batch, changesets, all_changesets, weekly_data,
              nreq, errors, clock, lastRequest>>
bulkVars == <<nulls, result, bulk_changesets, monthly_data>>
probeVars == <<probe, probeCity>>

RestFiles == {"changesets.json", "weekly_changesets.json", "cities.json"}
BulkFiles == {"changesets.json", "monthly_changesets.json", "cities.json"}

NoProbe == [center |-> NoCenter]

\* No run is under way.
Stopped == pc \in {"idle", "done", "aborted"}

\* The locals of both scripts before a run.
FreshLocals ==
    /\ written = {}
    /\ userIdx = 1
    /\ params = <<START_DATE>>
    /\ batch = << >>
    /\ changesets = << >>
    /\ all_changesets = << >>
    /\ weekly_data = << >>
    /\ nreq = 0
    /\ errors = {}
    /\ clock = 0
    /\ lastRequest = << >>
    /\ nulls = "None"
    /\ result = << >>
    /\ bulk_changesets = << >>
    /\ monthly_data = << >>

\* The locals of both scripts are set anew as a run starts.
ResetLocals ==
    /\ written' = {}
    /\ userIdx' = 1
    /\ params' = <<START_DATE>>
    /\ batch' = << >>
    /\ changesets' = << >>
    /\ all_changesets' = << >>
    /\ weekly_data' = << >>
    /\ nreq' = 0
    /\ errors' = {}
    /\ clock' = 0
    /\ lastRequest' = << >>
    /\ nulls' = "None"
    /\ result' = << >>
    /\ bulk_changesets' = << >>
    /\ monthly_data' = << >>

Init ==
    /\ server \in SUBSET Ids
    /\ files = [f \in FileNames |-> NoFile]
    /\ script = "none"
    /\ pc = "idle"
    /\ runs = 0
    /\ FreshLocals
    /\ probe = NoProbe
    /\ probeCity = << >>

\* open(output_dir / name, 'w') and json.dump(data, f)
Write(name, data) ==
    /\ files' = [files EXCEPT ![name] = [writer |-> script, data |-> data]]
    /\ written' = written \cup {name}

(* ------------------------------------------------------------------ *)
(* A run of fetch_changesets.py                                        *)
(* ------------------------------------------------------------------ *)

\* time.sleep(1) between two pages.
PageDelay == 1

\* main without its sleep between two users.
UserDelayNone == 1 - 1

\* time.sleep(2) between two users.
UserDelay == 2

\* The except clause without its break: the loop sends the request again.
AfterRequestErrorRetry == "request"

\* Where the loop goes after the except clause: break, so the call returns.
AfterRequestError == "returned"

\* main starts: the output directory and the empty lists.
StartRest ==
    /\ Stopped /\ runs < MaxRuns
    /\ runs' = runs + 1
    /\ script' = "rest"
    /\ pc' = "call"
    /\ ResetLocals
    /\ UNCHANGED <<server, files, probeVars>>

\* main calls fetch_user_changesets(username) for USERS[userIdx].
CallFetch ==
    /\ script = "rest" /\ pc = "call"
    /\ changesets' = << >>
    /\ params' = <<START_DATE>>
    /\ batch' = << >>
    /\ nreq' = 0
    /\ pc' = "request"
    /\ UNCHANGED <<server, files, script, runs, written, userIdx, all_changesets,
                   weekly_data, errors, clock, lastRequest, bulkVars, probeVars>>

\* requests.get or raise_for_status raises a RequestException.
RequestFails ==
    /\ script = "rest" /\ pc = "request" /\ nreq < MaxRequests
    /\ nreq' = nreq + 1
    /\ lastRequest' = <<clock>>
    /\ errors' = errors \cup {USERS[userIdx]}
    /\ pc' = AfterRequestError
    /\ UNCHANGED <<server, files, script, runs, written, userIdx, params, batch,
                   changesets, all_changesets, weekly_data, clock,
                   bulkVars, probeVars>>

\* One iteration of the while loop with a response: parse, extend, then break
\* or set the next window and sleep.
RequestPage ==
    /\ script = "rest" /\ pc = "request" /\ nreq < MaxRequests
    /\ nreq' = nreq + 1
    /\ lastRequest' = <<clock>>
    /\ \E P \in Pages(server, USERS[userIdx], params) :
          LET page == NewestFirst(P)
              parsed == ParseBatch(page)
          IN  IF ~BatchParses(page)
              THEN /\ pc' = "aborted"
                   /\ UNCHANGED <<batch, changesets, params, clock>>
              ELSE /\ batch' = parsed
                   /\ IF parsed = << >>
                      THEN /\ pc' = "returned"
                           /\ UNCHANGED <<changesets, params, clock>>
                      ELSE /\ changesets' = changesets \o parsed
                           /\ IF ShortPage(parsed)
                              THEN /\ pc' = "returned"
                                   /\ UNCHANGED <<params, clock>>
                              ELSE /\ params' = NextTime(START_DATE, parsed)
                                   /\ clock' = clock + PageDelay
                                   /\ pc' = "request"
    /\ UNCHANGED <<server, files, script, runs, written, userIdx, all_changesets,
                   weekly_data, errors, bulkVars, probeVars>>

\* The position of main after the body of the loop over USERS.
AfterUser(i) == IF i < Len(USERS) THEN [idx |-> i + 1, pc |-> "call"]
                ELSE [idx |-> i, pc |-> "save_raw"]

\* The rest of the body of main's loop, after the call returned.
FinishUser ==
    /\ script = "rest" /\ pc = "returned"
    /\ all_changesets' = all_changesets \o Classified(changesets)
    /\ clock' = clock + UserDelay
    /\ userIdx' = AfterUser(userIdx).idx
    /\ pc' = AfterUser(userIdx).pc
    /\ UNCHANGED <<server, files, script, runs, written, params, batch, changesets,
                   weekly_data, nreq, errors, lastRequest, bulkVars, probeVars>>

\* Sort by created_at and save the raw data.
RestSaveRaw ==
    /\ script = "rest" /\ pc = "save_raw"
    /\ all_changesets' = SortByCreated(all_changesets)
    /\ Write("changesets.json", all_changesets')
    /\ pc' = "save_weekly"
    /\ UNCHANGED <<server, script, runs, userIdx, params, batch, changesets,
                   weekly_data, nreq, errors, clock, lastRequest,
                   bulkVars, probeVars>>

\* Create and save the weekly aggregation.
RestSaveWeekly ==
    /\ script = "rest" /\ pc = "save_weekly"
    /\ weekly_data' = WeeklyData(all_changesets)
    /\ Write("weekly_changesets.json", weekly_data')
    /\ pc' = "save_cities"
    /\ UNCHANGED <<server, script, runs, userIdx, params, batch, changesets,
                   all_changesets, nreq, errors, clock, lastRequest,
                   bulkVars, probeVars>>

\* Save the city definitions; the summary follows and main returns.
RestSaveCities ==
    /\ script = "rest" /\ pc = "save_cities"
    /\ Write("cities.json", CitiesJson(REST_CITIES))
    /\ pc' = "done"
    /\ UNCHANGED <<server, script, runs, restVars, bulkVars, probeVars>>

(* ------------------------------------------------------------------ *)
(* A run of fetch_osm_duckdb.py                                        *)
(* ------------------------------------------------------------------ *)

StartBulk ==
    /\ Stopped /\ runs < MaxRuns
    /\ runs' = runs + 1
    /\ script' = "bulk"
    /\ pc' = "query"
    /\ ResetLocals
    /\ UNCHANGED <<server, files, probeVars>>

\* main without its early return on an empty result.
AfterQueryNoReturn(rows) == "process"

\* Where main goes after the query: it returns when the result has no row.
AfterQuery(rows) == IF Len(rows) = 0 THEN "done" ELSE "process"

\* conn.execute(query).fetchdf()
BulkQuery ==
    /\ script = "bulk" /\ pc = "query"
    /\ result' \in QueryResults(server)
    /\ nulls' \in {"None", "NaN"}
    /\ pc' = AfterQuery(result')
    /\ UNCHANGED <<server, files, script, runs, written, restVars,
                   bulk_changesets, monthly_data, probeVars>>

\* The query raises: the run is aborted.
BulkQueryFails ==
    /\ script = "bulk" /\ pc = "query"
    /\ pc' = "aborted"
    /\ UNCHANGED <<server, files, script, runs, written, restVars, bulkVars,
                   probeVars>>

\* The loop that computes centroids and cities.
BulkProcess ==
    /\ script = "bulk" /\ pc = "process"
    /\ IF \E i \in DOMAIN result : RowRaises(result[i], nulls)
       THEN /\ pc' = "aborted"
            /\ UNCHANGED bulk_changesets
       ELSE /\ bulk_changesets' = ProcessRows(result, nulls)
            /\ pc' = "save_raw"
    /\ UNCHANGED <<server, files, script, runs, written, restVars, nulls, result,
                   monthly_data, probeVars>>

BulkSaveRaw ==
    /\ script = "bulk" /\ pc = "save_raw"
    /\ Write("changesets.json", bulk_changesets)
    /\ pc' = "save_monthly"
    /\ UNCHANGED <<server, script, runs, restVars, bulkVars, probeVars>>

BulkSaveMonthly ==
    /\ script = "bulk" /\ pc = "save_monthly"
    /\ monthly_data' = MonthlyData(bulk_changesets)
    /\ Write("monthly_changesets.json", monthly_data')
    /\ pc' = "save_cities"
    /\ UNCHANGED <<server, script, runs, restVars, nulls, result,
                   bulk_changesets, probeVars>>

BulkSaveCities ==
    /\ script = "bulk" /\ pc = "save_cities"
    /\ Write("cities.json", CitiesJson(BULK_CITIES))
    /\ pc' = "done"
    /\ UNCHANGED <<server, script, runs, restVars, bulkVars, probeVars>>

(* ------------------------------------------------------------------ *)
(* Specifications                                                      *)
(* ------------------------------------------------------------------ *)

Next ==
    \/ StartRest \/ CallFetch \/ RequestFails \/ RequestPage \/ FinishUser
    \/ RestSaveRaw \/ RestSaveWeekly \/ RestSaveCities
    \/ StartBulk \/ BulkQuery \/ BulkQueryFails \/ BulkProcess
    \/ BulkSaveRaw \/ BulkSaveMonthly \/ BulkSaveCities

Spec == Init /\ [][Next]_vars

\* One run of the REST fetcher.  The script is a sequential program: while the
\* loop of fetch_user_changesets is at a request, the request is sent.
InitFetch ==
    /\ server \in SUBSET Ids
    /\ files = [f \in FileNames |-> NoFile]
    /\ script = "none"
    /\ pc = "idle"
    /\ runs = MaxRuns - 1
    /\ FreshLocals
    /\ probe = NoProbe
    /\ probeCity = << >>

NextFetch ==
    \/ StartRest \/ CallFetch \/ RequestFails \/ RequestPage \/ FinishUser
    \/ RestSaveRaw \/ RestSaveWeekly \/ RestSaveCities

FetchSpec == InitFetch /\ [][NextFetch]_vars /\ WF_nreq(RequestPage \/ RequestFails)

(* ------------------------------------------------------------------ *)
(* The classifiers applied to a centroid of a grid                     *)
(* ------------------------------------------------------------------ *)

\* Doubled longitudes and latitudes on, just inside and just outside the
\* bounds of Phoenix, Scottsdale (which overlap), Rome and London.
ProbeLons == {-22471, -22470, -22393, -22392, -22386, -22380, -22379, -22336,
              -22335, -103, -102, 0, 66, 67, 2445, 2446, 2570, 2571}
ProbeLats == {6653, 6654, 6679, 6680, 6710, 6740, 6741, 6770, 6771,
              8329, 8330, 8420, 8421, 10255, 10256, 10338, 10339}

InitClassify ==
    /\ server = {}
    /\ files = [f \in FileNames |-> NoFile]
    /\ script = "none"
    /\ pc = "idle"
    /\ runs = 0
    /\ FreshLocals
    /\ probe \in {[center |-> [has |-> TRUE, lon |-> x, lat |-> y]] :
                     x \in ProbeLons, y \in ProbeLats}
    /\ probeCity = << >>

\* classify_changeset_location and the inline loop of the bulk-query fetcher,
\* applied to the probe's centroid.
ClassifyProbe ==
    /\ probeCity = << >>
    /\ probeCity' = <<classify_changeset_location(probe),
                      ScanBulk(1, [kind |-> "num", v |-> probe.center.lon],
                                  [kind |-> "num", v |-> probe.center.lat])>>
    /\ UNCHANGED <<server, files, script, pc, runs, written, restVars, bulkVars,
                   probe>>

ClassifySpec == InitClassify /\ [][ClassifyProbe]_vars

(* ------------------------------------------------------------------ *)
(* Properties                                                          *)
(* ------------------------------------------------------------------ *)

User == USERS[userIdx]

\* The ids of a list of records, in order.
IdsOf(list) == [i \in DOMAIN list |-> list[i].id]

\* How many entries of a sequence of ids are the id x.
Count(ids, x) == Cardinality({i \in DOMAIN ids : ids[i] = x})

\* C1: pagination terminates.  For every set of changesets the server holds,
\* the request loop of fetch_user_changesets is left eventually; it is about
\* to send a further request only when the page before held PageLimit records
\* (never after a shorter page, an empty one included), and only while the
\* full pages received so far fit into the user's changesets.
C1_PaginationTerminates ==
    /\ [](script = "rest" /\ pc = "request" /\ nreq > 0 =>
            /\ Len(batch) = PageLimit
            /\ nreq * PageLimit <= Cardinality(Window(server, User, <<START_DATE>>)))
    /\ (script = "rest" /\ pc = "request") ~> (pc # "request")

\* C1 witness: a fetch that returned without an error after two full pages
\* and a shorter third one.
C1_Witness ==
    /\ script = "rest" /\ pc = "returned" /\ User \notin errors
    /\ nreq = 3 /\ Len(batch) < PageLimit
    /\ Len(changesets) = 2 * PageLimit + Len(batch)

\* C2: fetch_user_changesets returns every changeset of the user created at or
\* after start_time, each exactly once, when no request failed.
C2_FetchesAllExactlyOnce ==
    (script = "rest" /\ pc = "returned" /\ User \notin errors) =>
        \A id \in Window(server, User, <<START_DATE>>) :
            Count(IdsOf(changesets), id) = 1

\* C3: a request error ends the fetch of that user and nothing else.  The
\* failing step returns the list as it was (the pages retrieved so far), no
\* request follows for a user whose request failed, main goes from a returned
\* call to the next user of USERS, in order, keeping what the call returned,
\* and a run that ends has written the three output files.
C3_ErrorEndsOnlyThatUser ==
    /\ [][errors' # errors /\ errors' # {} =>
            /\ pc' = "returned"
            /\ changesets' = changesets
            /\ userIdx' = userIdx]_vars
    /\ [][nreq' = nreq + 1 => USERS[userIdx] \notin errors]_vars
    /\ [][script = "rest" /\ pc = "returned" =>
            /\ IdsOf(all_changesets') = IdsOf(all_changesets) \o IdsOf(changesets)
            /\ IF userIdx < Len(USERS)
               THEN userIdx' = userIdx + 1 /\ pc' = "call"
               ELSE pc' = "save_raw"]_vars
    /\ [](script = "rest" /\ pc = "done" => written = RestFiles)

\* C3 witness: a finished run in which the second request of the first user
\* failed, whose output holds the page that user's first request retrieved and
\* the changesets of the second user.
C3_Witness ==
    /\ script = "rest" /\ pc = "done" /\ written = RestFiles
    /\ errors = {USERS[1]}
    /\ Cardinality({i \in DOMAIN all_changesets :
                       all_changesets[i].user = USERS[1]}) = PageLimit
    /\ \E i \in DOMAIN all_changesets : all_changesets[i].user = USERS[2]
    /\ files["changesets.json"].data = all_changesets

\* The run was aborted by an exception raised while records were processed
\* (and not by a failing query).
AbortedByRecord == pc = "aborted" /\ (script = "rest" \/ result # << >>)

\* C4: a record whose bounding box is missing or only partly present, or whose
\* tags are missing, raises no error and aborts no run, and is handled as a
\* changeset without a bounding box: it gets no centroid.
C4_MissingFieldsAbsent ==
    /\ ~AbortedByRecord
    /\ \A i \in DOMAIN changesets :
           changesets[i].center.has => HasBBox(changesets[i].id)
    /\ \A i \in DOMAIN bulk_changesets : HasBBox(bulk_changesets[i].id)

\* The files a completed run of a script writes, with what it writes to them.
RunOutput ==
    IF script = "rest"
    THEN [f \in RestFiles |->
            [writer |-> "rest",
             data |-> CASE f = "changesets.json" -> all_changesets
                        [] f = "weekly_changesets.json" -> weekly_data
                        [] OTHER -> CitiesJson(REST_CITIES)]]
    ELSE [f \in BulkFiles |->
            [writer |-> "bulk",
             data |-> CASE f = "changesets.json" -> bulk_changesets
                        [] f = "monthly_changesets.json" -> monthly_data
                        [] OTHER -> CitiesJson(BULK_CITIES)]]

WroteThreeFiles ==
    /\ written = DOMAIN RunOutput
    /\ Cardinality(written) = 3
    /\ \A f \in written : files[f] = RunOutput[f]

\* C5: every run of either script that completes without an error has written
\* its three JSON files, also when the result holds no changeset.
C5_ThreeFilesEveryRun == pc = "done" => WroteThreeFiles

\* C5 as amended: a completed run of the REST fetcher has written its three
\* files, also with no changeset at all; a completed run of the bulk-query
\* fetcher has written its three files when the query returned a row, and has
\* written no file when the query returned no row.
C5_ThreeFilesUnlessEmptyQuery ==
    pc = "done" =>
        IF script = "bulk" /\ result = << >> THEN written = {}
        ELSE WroteThreeFiles

\* C5 witness: a completed run of the REST fetcher that found no changeset and
\* wrote its three files.
C5_Witness ==
    /\ script = "rest" /\ pc = "done" /\ all_changesets = << >> /\ errors = {}
    /\ written = RestFiles

\* The cities of a table whose box contains the doubled centroid, by index.
Containing(cities, lon, lat) ==
    {i \in DOMAIN cities :
        /\ 2 * cities[i].min_lon <= lon /\ lon <= 2 * cities[i].max_lon
        /\ 2 * cities[i].min_lat <= lat /\ lat <= 2 * cities[i].max_lat}

\* The name of the first city of the table that contains the centroid, and
\* 'Other' when none does.
FirstContaining(cities, lon, lat) ==
    LET hits == Containing(cities, lon, lat)
    IN  IF hits = {} THEN "Other"
        ELSE cities[CHOOSE i \in hits : \A j \in hits : i <= j].name

\* C6: the city label of a centroid is the name of the first city, in the
\* order of the script's CITIES table, whose box contains it (bounds
\* inclusive), and 'Other' when no box does, in both scripts.
C6_FirstMatchWins ==
    probeCity # << >> =>
        /\ probeCity[1] = FirstContaining(REST_CITIES, probe.center.lon, probe.center.lat)
        /\ probeCity[2] = FirstContaining(BULK_CITIES, probe.center.lon, probe.center.lat)

\* C6 witness: a centroid on the western bound of Scottsdale and inside
\* Phoenix, which the bulk-query fetcher labels with the earlier city.
C6_Witness ==
    /\ probe.center.lon = -22392 /\ probe.center.lat = 6710
    /\ probeCity = <<"Phoenix, AZ", "Scottsdale, AZ">>

\* The items of all buckets of an aggregation, as a set of <<bucket, position>>.
Slots(data) == UNION {{<<j, k>> : k \in DOMAIN data[j].items} : j \in DOMAIN data}

\* C7: a record carries a centroid only if its changeset has all four
\* bounding-box coordinates; a changeset without them gets no centroid, no
\* city name from the city table, and is in no week or month bucket.
C7_CentroidOnlyWithBBox ==
    /\ \A i \in DOMAIN all_changesets :
           /\ all_changesets[i].center.has => HasBBox(all_changesets[i].id)
           /\ ~HasBBox(all_changesets[i].id) =>
                  /\ ~all_changesets[i].center.has
                  /\ all_changesets[i].city \in {"absent", None}
    /\ \A i \in DOMAIN changesets :
           changesets[i].center.has <=> HasBBox(changesets[i].id)
    /\ \A s \in Slots(weekly_data) : HasBBox(weekly_data[s[1]].items[s[2]].id)
    /\ \A i \in DOMAIN bulk_changesets : HasBBox(bulk_changesets[i].id)
    /\ \A s \in Slots(monthly_data) : HasBBox(monthly_data[s[1]].items[s[2]].id)

\* C8: the two scripts do not interact: a step of a run of one script leaves
\* every file unchanged that the other script was the last to write.
C8_ScriptsIndependent ==
    [][\A f \in FileNames :
          (files[f].writer \notin {"none", script'}) =>
              files'[f].data = files[f].data]_vars


\* The position of the record with the given id in a list.
Pos(list, id) == CHOOSE i \in DOMAIN list : list[i].id = id

\* data groups the records of list that have a centroid: every such record is
\* in exactly one bucket, whose key is the one of its created_at; no bucket is
\* empty, no key comes twice, and a bucket keeps the order of the list.
Groups(data, list, HasCentroid(_), KeyOf(_, _)) ==
    /\ \A i \in DOMAIN list :
           Cardinality({s \in Slots(data) :
                           data[s[1]].items[s[2]].id = list[i].id})
               = IF HasCentroid(list[i]) THEN 1 ELSE 0
    /\ \A s \in Slots(data) :
           /\ \E i \in DOMAIN list : list[i].id = data[s[1]].items[s[2]].id
           /\ KeyOf(data[s[1]].key, data[s[1]].items[s[2]].created_at)
    /\ \A j \in DOMAIN data :
           /\ data[j].items # << >>
           /\ \A j2 \in DOMAIN data : data[j2].key = data[j].key => j2 = j
           /\ \A k1, k2 \in DOMAIN data[j].items :
                  k1 < k2 => Pos(list, data[j].items[k1].id)
                                 < Pos(list, data[j].items[k2].id)

\* key is the date of the Monday of the week of the day created_at.
IsMondayOf(key, created_at) ==
    /\ \E w \in 0..6 : key = DateOf(created_at - w) /\ (created_at - w) % 7 = 0
    /\ created_at = 73 => key = <<2024, 3, 11>>

\* key is the year and month of the date created_at.
IsMonthOf(key, created_at) ==
    /\ key = <<created_at[1], created_at[2]>>
    /\ created_at = <<2024, 3, 14>> => key = <<2024, 3>>

RestHasCentroid(cs) == cs.center.has
BulkHasCentroid(cs) == TRUE

\* C9: after the aggregation loop every changeset with a centroid is in exactly
\* one bucket, that of the Monday of its week (REST fetcher) or of its
\* year-month (bulk-query fetcher); no bucket is empty; and a bucket keeps the
\* order of the input list, which is sorted by created_at.
C9_AggregationGroups ==
    /\ (script = "rest" /\ pc \in {"save_cities", "done"}) =>
           /\ Groups(weekly_data, all_changesets, RestHasCentroid, IsMondayOf)
           /\ \A i, j \in DOMAIN all_changesets :
                  i < j => all_changesets[i].created_at <= all_changesets[j].created_at
    /\ (script = "bulk" /\ pc \in {"save_cities", "done"}) =>
           Groups(monthly_data, bulk_changesets, BulkHasCentroid, IsMonthOf)

\* C9 witness: a completed run of the REST fetcher whose week of 2024-01-29
\* holds changeset 9 of the first user before changeset 8 of the second, and
\* which has a bucket for the week of 2024-03-11.
C9_Witness ==
    /\ script = "rest" /\ pc = "done"
    /\ \E j \in DOMAIN weekly_data :
           /\ weekly_data[j].key = <<2024, 1, 29>>
           /\ IdsOf(weekly_data[j].items) = <<9, 8>>
    /\ \E j \in DOMAIN weekly_data : weekly_data[j].key = <<2024, 3, 11>>

\* C10: between two consecutive requests of a run of the REST fetcher there is
\* a delay: when the loop is about to send a request, at least a second has
\* been slept since the request before, whatever that request returned.
C10_DelayBetweenRequests ==
    (script = "rest" /\ pc = "request" /\ lastRequest # << >>) =>
        clock >= lastRequest[1] + 1

\* C10 witness: the first request of the second user is about to be sent after
\* the request of the first user failed.
C10_Witness ==
    /\ script = "rest" /\ pc = "request" /\ userIdx = 2 /\ nreq = 0
    /\ errors = {USERS[1]} /\ lastRequest # << >>
    /\ clock = lastRequest[1] + UserDelay

====
